---- MODULE Spec2Model ----
(***************************************************************************)
(* Model of the numeral generator's enumeration engine                     *)
(* (src/src/number_generator.rs): weight preparation, the per-slot pair    *)
(* iterator NumberIterator, the ten-slot odometer NumbersIterator with its *)
(* duplicate avoidance, and the running-best filter of                     *)
(* NumberGenerator::generate.                                              *)
(*                                                                         *)
(* Vec indices are kept 0-based as in the source: a Vec is a TLA+ sequence *)
(* read through At, and the per-slot vectors are functions over 0..9.      *)
(* Weights are kept as exact numerators over the common denominator        *)
(* weight_sum (regular weight = population / weight_sum), so scores are    *)
(* integers and comparisons between scores are those of the quotients.     *)
(***************************************************************************)
EXTENDS Integers, Sequences, FiniteSets, TLC

(***************************************************************************)
(* Bounds of the explored inputs.                                          *)
(***************************************************************************)
\* largest modulus of the chain of loanwords of language "a"
MaxMod == 11
\* consonants language "b" may contribute are 1..MaxExtra
MaxExtra == 12
\* populations range over 1..MaxPop
MaxPop == 2
\* how many times next() is called again after it has returned None
MaxNone == 2

(***************************************************************************)
(* Phonemes.  Consonants are numbered in the order of the consonant table  *)
(* of generate() (P = 1, B = 2, T = 3, ... W = 20), the vowels A E I O U   *)
(* follow.  The order of the numbers stands for the derived Ord of         *)
(* Phoneme.                                                                *)
(***************************************************************************)
NumCons == 20
Consonants == 1..NumCons
Vowels == <<NumCons + 1, NumCons + 2, NumCons + 3, NumCons + 4, NumCons + 5>>
\* a mutant of IsVowel that lets the vowels through the filter
IsVowelNever(p) == FALSE

\* vowels.contains(p)
IsVowel(p) == \E k \in 1..Len(Vowels) : Vowels[k] = p

\* the slot next() advances from: raw_next(9)
LastSlot == 9
NumSlots == LastSlot + 1
Slots == 0..LastSlot

\* a `let`: the value of F at e, with e computed once
Bind(F(_), e) == CHOOSE r \in {F(v) : v \in {e}} : TRUE

\* 0-based read of a Vec
At(vec, i) == vec[i + 1]

\* Vec::insert(index, element); fails when index > len
VecInsert(vec, index, x) ==
    IF index > Len(vec)
    THEN [ok |-> FALSE, vec |-> vec]
    ELSE [ok |-> TRUE,
          vec |-> SubSeq(vec, 1, index) \o <<x>> \o SubSeq(vec, index + 1, Len(vec))]

(***************************************************************************)
(* Weight preparation.                                                     *)
(***************************************************************************)
Languages == {"a", "b"}

\* numerator of population / weight_sum
GetRegularWeight(super_languages, language) == super_languages[language]

\* the distinct phonemes of one loanword (the HashSet built from the loan)
LoanSet(loan) == {loan[k] : k \in 1..Len(loan)}

RECURSIVE AddOrigins(_, _, _)
\* the inner loops of initialize_candidate_phonemes: every distinct phoneme
\* of every origin's loanword gains the regular weight of the origin's language
AddOrigins(origins, super_languages, v) ==
    IF origins = <<>> THEN v
    ELSE LET origin == Head(origins)
             loan == LoanSet(origin.loan)
             w == GetRegularWeight(super_languages, origin.language)
             v2 == [p \in (DOMAIN v) \cup loan |->
                       (IF p \in DOMAIN v THEN v[p] ELSE 0)
                     + (IF p \in loan THEN w ELSE 0)]
         IN AddOrigins(Tail(origins), super_languages, v2)

RECURSIVE InitializeCandidatePhonemesFrom(_, _, _)
InitializeCandidatePhonemesFrom(super_words, super_languages, acc) ==
    IF super_words = <<>> \/ ~acc.ok THEN acc
    ELSE LET super_word == Head(super_words)
             number == super_word.meaning
             v == AddOrigins(super_word.origins, super_languages, <<>>)
         IN InitializeCandidatePhonemesFrom(Tail(super_words), super_languages,
                                            VecInsert(acc.vec, number, v))

\* initialize_candidate_phonemes: one weight map per word, inserted at the
\* position given by the word's digit label
InitializeCandidatePhonemes(super_words, super_languages) ==
    InitializeCandidatePhonemesFrom(super_words, super_languages,
                                    [ok |-> TRUE, vec |-> <<>>])

(***************************************************************************)
(* The explored recipes.  Language "a" has a loanword for every digit d,   *)
(* consonant - vowel - consonant, whose consonants follow a chain modulo   *)
(* m; language "b" has a loanword e - vowel - e for one digit j (none when *)
(* e = 0).                                                                 *)
(***************************************************************************)
ChainCons(m, k) == 1 + (k % m)

RecipeWords(m, j, e) ==
    [n \in 1..NumSlots |->
        LET d == n - 1
            vowel == Vowels[(d % Len(Vowels)) + 1]
            a == <<[language |-> "a",
                    loan |-> <<ChainCons(m, d), vowel, ChainCons(m, d + 1)>>]>>
            b == IF e > 0 /\ d = j
                 THEN <<[language |-> "b", loan |-> <<e, vowel, e>>]>>
                 ELSE <<>>
        IN [meaning |-> d, origins |-> a \o b]]

(***************************************************************************)
(* NumberIterator: the pair iterator of one slot.                          *)
(***************************************************************************)
NoNumber == [first_consonant |-> 0, vowel |-> 0, second_consonant |-> 0]

NumberIteratorNew(candidate_consonants, vowel) ==
    [candidate_consonants |-> candidate_consonants,
     vowel |-> vowel,
     first_consonant_index |-> 0,
     second_consonant_index |-> 0]

End(it) == it.first_consonant_index >= Len(it.candidate_consonants)

CarryUpIndex(it) ==
    [it EXCEPT !.second_consonant_index = 0,
               !.first_consonant_index = @ + 1]

\* a mutant of NextIndex that carries one column early
NextIndexEarlyCarry(it) ==
    IF End(it) THEN it
    ELSE IF it.second_consonant_index + 2 >= Len(it.candidate_consonants)
         THEN CarryUpIndex(it)
         ELSE [it EXCEPT !.second_consonant_index = @ + 1]

NextIndex(it) ==
    IF End(it) THEN it
    ELSE IF it.second_consonant_index + 1 >= Len(it.candidate_consonants)
         THEN CarryUpIndex(it)
         ELSE [it EXCEPT !.second_consonant_index = @ + 1]

\* a mutant of Reload that leaves the first index where it is
ReloadSecondOnly(it) == [it EXCEPT !.second_consonant_index = 0]

Reload(it) ==
    [it EXCEPT !.first_consonant_index = 0, !.second_consonant_index = 0]

\* a mutant of SkipEqual that yields the self-pair instead of skipping it
SkipEqualNoSkip(it) == it

RECURSIVE SkipEqual(_)
\* the while loop of next(): step over the pairs with equal indices; the
\* result is at its end exactly when the loop left through `return None`
SkipEqual(it) ==
    IF it.first_consonant_index = it.second_consonant_index
    THEN Bind(LAMBDA n : IF End(n) THEN n ELSE SkipEqual(n), NextIndex(it))
    ELSE it

\* NumberIterator::next
NumberNext(it) ==
    IF End(it) THEN [it |-> it, some |-> FALSE, number |-> NoNumber]
    ELSE Bind(LAMBDA s :
            IF End(s) THEN [it |-> s, some |-> FALSE, number |-> NoNumber]
            ELSE [it |-> NextIndex(s),
                  some |-> TRUE,
                  number |->
                     [first_consonant |->
                          At(s.candidate_consonants, s.first_consonant_index),
                      vowel |-> s.vowel,
                      second_consonant |->
                          At(s.candidate_consonants, s.second_consonant_index)]],
            SkipEqual(it))

(***************************************************************************)
(* NumbersIterator: the odometer.  Its state is the record                 *)
(* [end, number_itrators, numbers].                                        *)
(***************************************************************************)
RECURSIVE SortedSeq(_)
\* keys.sort() on a set of distinct keys
SortedSeq(S) ==
    IF S = {} THEN <<>>
    ELSE Bind(LAMBDA least :
                 <<least>> \o Bind(LAMBDA rest : SortedSeq(rest), S \ {least}),
              CHOOSE x \in S : \A y \in S : x <= y)

\* the candidate list generate() builds from one weight map:
\* the keys that are not vowels, sorted (dedup leaves distinct keys alone)
CandidateKeys(scores) == SortedSeq({p \in DOMAIN scores : ~IsVowel(p)})

\* a mutant of SlotVowel that gives every slot the first vowel
SlotVowelFirst(index) == Vowels[1]

\* vowels[index % vowels.len()]
SlotVowel(index) == Vowels[(index % Len(Vowels)) + 1]

\* NumbersIterator::new; ok is FALSE when a priming next().unwrap() fails
NumbersIteratorNew(candidates) ==
    LET fresh == [i \in Slots |-> NumberIteratorNew(At(candidates, i), SlotVowel(i))]
        primed == [i \in Slots |-> Bind(LAMBDA it : NumberNext(it), fresh[i])]
    IN [ok |-> \A i \in Slots : primed[i].some,
        s |-> [end |-> FALSE,
               number_itrators |-> [i \in Slots |-> primed[i].it],
               numbers |-> [i \in Slots |-> primed[i].number]]]

\* a mutant of RawNextGuard that forgets the end flag
RawNextGuardOff(s) == FALSE

\* the `if self.end` test that opens raw_next and raw_next_and_get_index
RawNextGuard(s) == s.end

RECURSIVE RawNextAndGetIndex(_, _)
\* raw_next_and_get_index: advance slot index, carrying toward slot 0;
\* the result is the state and the slot that took a next pair
RawNextAndGetIndex(s, index) ==
    IF RawNextGuard(s) THEN [s |-> s, index |-> 0]
    ELSE Bind(LAMBDA r :
            IF r.some
            THEN [s |-> [s EXCEPT !.number_itrators[index] = r.it,
                                  !.numbers[index] = r.number],
                  index |-> index]
            ELSE IF index = 0
            THEN [s |-> [s EXCEPT !.number_itrators[index] = r.it,
                                  !.end = TRUE],
                  index |-> 0]
            ELSE Bind(LAMBDA p :
                    Bind(LAMBDA t : RawNextAndGetIndex(t, index - 1),
                         [s EXCEPT !.number_itrators[index] = p.it,
                                   !.numbers[index] = p.number]),
                    NumberNext(Reload(r.it))),
            NumberNext(s.number_itrators[index]))

RECURSIVE RawNext(_, _)
\* raw_next: the same advance; some is FALSE when it returns None, and
\* otherwise the value returned is the numbers of the resulting state
RawNext(s, index) ==
    IF RawNextGuard(s) THEN [s |-> s, some |-> FALSE]
    ELSE Bind(LAMBDA r :
            IF r.some
            THEN [s |-> [s EXCEPT !.number_itrators[index] = r.it,
                                  !.numbers[index] = r.number],
                  some |-> TRUE]
            ELSE IF index = 0
            THEN [s |-> [s EXCEPT !.number_itrators[index] = r.it,
                                  !.end = TRUE],
                  some |-> FALSE]
            ELSE Bind(LAMBDA p :
                    Bind(LAMBDA t : RawNext(t, index - 1),
                         [s EXCEPT !.number_itrators[index] = p.it,
                                   !.numbers[index] = p.number]),
                    NumberNext(Reload(r.it))),
            NumberNext(s.number_itrators[index]))

RECURSIVE ReloadFrom(_, _)
\* for index in from..numbers.len(): reload the slot and raw_next it
ReloadFrom(s, from) ==
    IF from >= NumSlots THEN s
    ELSE Bind(LAMBDA t : ReloadFrom(t, from + 1),
              RawNext([s EXCEPT !.number_itrators[from] = Reload(@)], from).s)

\* a mutant of DuplicateFirstConsonant that never sees a collision
DuplicateFirstConsonantNever(numbers, index) == FALSE

\* numbers.iter().take(index).any(|head| head.duplicate_first_consonant(number))
DuplicateFirstConsonant(numbers, index) ==
    \E h \in 0..(index - 1) :
        numbers[h].first_consonant = numbers[index].first_consonant

\* a mutant of DuplicateSecondConsonant that never sees a collision
DuplicateSecondConsonantNever(numbers, index) == FALSE

\* numbers.iter().take(index).any(|head| head.duplicate_second_consonant(number))
DuplicateSecondConsonant(numbers, index) ==
    \E h \in 0..(index - 1) :
        numbers[h].second_consonant = numbers[index].second_consonant

\* a mutant of ResolveFirst that resumes the scan at the colliding slot
\* even when the carry advanced a lower one
ResolveFirstSameIndex(s, index) ==
    LET carried == [s EXCEPT !.number_itrators[index] = CarryUpIndex(@)]
    IN [Bind(LAMBDA t : RawNextAndGetIndex(t, index),
             ReloadFrom(carried, index + 1)) EXCEPT !.index = index]

\* a mutant of ResolveFirst that leaves the iterator and the index alone
ResolveFirstStuck(s, index) == [s |-> s, index |-> index]

\* the first-consonant branch of avoid_duplicate at slot index
ResolveFirst(s, index) ==
    LET carried == [s EXCEPT !.number_itrators[index] = CarryUpIndex(@)]
    IN Bind(LAMBDA t : RawNextAndGetIndex(t, index),
            ReloadFrom(carried, index + 1))

\* a mutant of ResolveSecond that carries as the first-consonant branch does
ResolveSecondCarry(s, index) == ResolveFirst(s, index)

\* a mutant of ResolveSecond that resumes the scan at the colliding slot
\* even when the carry advanced a lower one
ResolveSecondSameIndex(s, index) ==
    [RawNextAndGetIndex(ReloadFrom(s, index + 1), index) EXCEPT !.index = index]

\* the second-consonant branch of avoid_duplicate at slot index
ResolveSecond(s, index) ==
    Bind(LAMBDA t : RawNextAndGetIndex(t, index), ReloadFrom(s, index + 1))

(***************************************************************************)
(* Scoring and the running-best filter.                                    *)
(***************************************************************************)
\* a mutant of NumberScore that forgets the second consonant
NumberScoreFirstOnly(candidate_phonemes, index, number) ==
    LET weights == At(candidate_phonemes, index)
    IN IF number.first_consonant \in DOMAIN weights
       THEN weights[number.first_consonant] ELSE 0

\* number_score
NumberScore(candidate_phonemes, index, number) ==
    LET weights == At(candidate_phonemes, index)
    IN (IF number.first_consonant \in DOMAIN weights
        THEN weights[number.first_consonant] ELSE 0)
     + (IF number.second_consonant \in DOMAIN weights
        THEN weights[number.second_consonant] ELSE 0)

RECURSIVE SumScores(_)
\* candidate_numbers_score
SumScores(candidate_numbers) ==
    IF candidate_numbers = <<>> THEN 0
    ELSE Head(candidate_numbers).score
         + Bind(LAMBDA rest : SumScores(rest), Tail(candidate_numbers))

\* the CandidateNumbers generate() builds from a yielded Vec<Number>
Scored(candidate_phonemes, consonants) ==
    LET candidate_numbers ==
            [n \in 1..NumSlots |->
                [score |-> NumberScore(candidate_phonemes, n - 1, consonants[n - 1]),
                 number |-> consonants[n - 1]]]
    IN [score |-> SumScores(candidate_numbers), numbers |-> candidate_numbers]

\* a mutant of Retain that keeps strict improvements only
RetainStrict(score, max) == score > max

\* a mutant of Retain that keeps every assignment
RetainAll(score, max) == TRUE

\* the filter of generate(): candiate_numbers.score >= max_score
Retain(score, max) == score >= max

(***************************************************************************)
(* The state machine: generate() drives NumbersIterator::next, one action  *)
(* per iteration of the scan loop of avoid_duplicate.                      *)
(***************************************************************************)
VARIABLES
    super_words,         \* NumberGenerator.super_words
    candidate_phonemes,  \* NumberGenerator.candidate_phonemes
    words,               \* NumberGenerator.words
    max_score,           \* the local max_score of generate()
    end,                 \* NumbersIterator.end
    number_itrators,     \* NumbersIterator.number_itrators
    numbers,             \* NumbersIterator.numbers
    duplicate,           \* the local duplicate of avoid_duplicate
    index,               \* the local index of avoid_duplicate
    pc,                  \* where the program is
    item,                \* the Vec<Number> the last next() returned
    via,                 \* which branch of next() returned it
    calls,               \* history: calls of next() so far
    yields,              \* history: Assignments yielded so far
    nones,               \* history: calls of next() that returned None
    valid_yields,        \* history: yielded Assignments without a collision
    log                  \* history: the Assignments yielded so far, in order

vars == <<super_words, candidate_phonemes, words, max_score, end, number_itrators, numbers,
          duplicate, index, pc, item, via, calls, yields, nones, valid_yields,
          log>>

\* no two slots share a first consonant, no two slots share a second consonant
CollisionFree(a) ==
    \A i, j \in Slots :
        i # j => /\ a[i].first_consonant # a[j].first_consonant
                 /\ a[i].second_consonant # a[j].second_consonant

iter == [end |-> end, number_itrators |-> number_itrators, numbers |-> numbers]

NoItem == [i \in Slots |-> NoNumber]

\* the state after NumberGenerator::new
Init ==
    /\ \E m \in 1..MaxMod, j \in Slots, e \in 0..MaxExtra,
          pa \in 1..MaxPop, pb \in 1..MaxPop :
          /\ super_words = RecipeWords(m, j, e)
          /\ candidate_phonemes =
                 InitializeCandidatePhonemes(
                     RecipeWords(m, j, e),
                     [l \in Languages |-> IF l = "a" THEN pa ELSE pb]).vec
    /\ words = <<>>
    /\ max_score = 0
    /\ end = FALSE
    /\ number_itrators = [i \in Slots |-> NumberIteratorNew(<<>>, 0)]
    /\ numbers = NoItem
    /\ duplicate = FALSE
    /\ index = 0
    /\ pc = "constructed"
    /\ item = NoItem
    /\ via = "none"
    /\ calls = 0
    /\ yields = 0
    /\ nones = 0
    /\ valid_yields = 0
    /\ log = <<>>

\* generate() up to its loop: build the candidate lists and the iterator
GenerateBegin ==
    /\ pc = "constructed"
    /\ \E r \in {NumbersIteratorNew([n \in 1..Len(candidate_phonemes) |->
                                         CandidateKeys(candidate_phonemes[n])])} :
          IF r.ok
          THEN /\ end' = r.s.end
               /\ number_itrators' = r.s.number_itrators
               /\ numbers' = r.s.numbers
               /\ pc' = "loop"
          ELSE /\ pc' = "panic"
               /\ UNCHANGED <<end, number_itrators, numbers>>
    /\ max_score' = 0
    /\ UNCHANGED <<super_words, candidate_phonemes, words, duplicate, index, item, via,
                   calls, yields, nones, valid_yields, log>>

\* a call of NumbersIterator::next enters avoid_duplicate
NextBegin ==
    /\ \/ pc = "loop"
       \/ pc = "done" /\ nones < MaxNone
    /\ pc' = "scan"
    /\ duplicate' = FALSE
    /\ index' = 1
    /\ calls' = calls + 1
    /\ UNCHANGED <<super_words, candidate_phonemes, words, max_score, end, number_itrators,
                   numbers, item, via, yields, nones, valid_yields, log>>

\* a mutant of NextResult that returns the current Assignment without
\* advancing
NextResultNoAdvance(s, dup) == [s |-> s, some |-> ~s.end]

\* what next() does once avoid_duplicate has returned dup
NextResult(s, dup) ==
    IF dup THEN [s |-> s, some |-> TRUE] ELSE RawNext(s, LastSlot)

\* next() returns r
Return(r, branch) ==
    /\ end' = r.s.end
    /\ number_itrators' = r.s.number_itrators
    /\ numbers' = r.s.numbers
    /\ IF r.some
       THEN /\ pc' = "yielded"
            /\ item' = r.s.numbers
            /\ via' = branch
            /\ yields' = yields + 1
            /\ valid_yields' = valid_yields + (IF CollisionFree(r.s.numbers) THEN 1 ELSE 0)
            /\ nones' = nones
            /\ log' = Append(log, r.s.numbers)
       ELSE /\ pc' = "done"
            /\ item' = NoItem
            /\ via' = "none"
            /\ yields' = yields
            /\ valid_yields' = valid_yields
            /\ nones' = nones + 1
            /\ log' = log
    /\ UNCHANGED <<super_words, candidate_phonemes, words, max_score, duplicate, index, calls>>

\* the scan finds the end flag set: avoid_duplicate returns false
ScanEnd ==
    /\ pc = "scan"
    /\ index < NumSlots
    /\ end
    /\ \E r \in {NextResult(iter, FALSE)} : Return(r, "raw")

\* the scan finds a first-consonant collision at slot index
ScanFirst ==
    /\ pc = "scan"
    /\ index < NumSlots
    /\ ~end
    /\ DuplicateFirstConsonant(numbers, index)
    /\ \E r \in {ResolveFirst(iter, index)} :
          /\ end' = r.s.end
          /\ number_itrators' = r.s.number_itrators
          /\ numbers' = r.s.numbers
          /\ index' = r.index
    /\ duplicate' = TRUE
    /\ UNCHANGED <<super_words, candidate_phonemes, words, max_score, pc, item, via,
                   calls, yields, nones, valid_yields, log>>

\* the scan finds a second-consonant collision at slot index
ScanSecond ==
    /\ pc = "scan"
    /\ index < NumSlots
    /\ ~end
    /\ ~DuplicateFirstConsonant(numbers, index)
    /\ DuplicateSecondConsonant(numbers, index)
    /\ \E r \in {ResolveSecond(iter, index)} :
          /\ end' = r.s.end
          /\ number_itrators' = r.s.number_itrators
          /\ numbers' = r.s.numbers
          /\ index' = r.index
    /\ duplicate' = TRUE
    /\ UNCHANGED <<super_words, candidate_phonemes, words, max_score, pc, item, via,
                   calls, yields, nones, valid_yields, log>>

\* slot index collides with no lower slot
ScanAdvance ==
    /\ pc = "scan"
    /\ index < NumSlots
    /\ ~end
    /\ ~DuplicateFirstConsonant(numbers, index)
    /\ ~DuplicateSecondConsonant(numbers, index)
    /\ index' = index + 1
    /\ UNCHANGED <<super_words, candidate_phonemes, words, max_score, end, number_itrators,
                   numbers, duplicate, pc, item, via, calls, yields, nones, valid_yields, log>>

\* the scan has passed the last slot: avoid_duplicate returns duplicate
ScanExit ==
    /\ pc = "scan"
    /\ index >= NumSlots
    /\ \E r \in {NextResult(iter, duplicate)} :
          Return(r, IF duplicate THEN "avoid" ELSE "raw")

\* the body of the loop of generate(): score the Assignment and filter it
Consume ==
    /\ pc = "yielded"
    /\ \E c \in {Scored(candidate_phonemes, item)} :
          IF Retain(c.score, max_score)
          THEN /\ max_score' = c.score
               /\ words' = Append(words, c)
          ELSE UNCHANGED <<max_score, words>>
    /\ pc' = "loop"
    /\ UNCHANGED <<super_words, candidate_phonemes, end, number_itrators, numbers,
                   duplicate, index, item, via, calls, yields, nones, valid_yields, log>>

Next ==
    \/ GenerateBegin
    \/ NextBegin
    \/ ScanEnd
    \/ ScanFirst
    \/ ScanSecond
    \/ ScanAdvance
    \/ ScanExit
    \/ Consume

Spec == Init /\ [][Next]_vars

(***************************************************************************)
(* What the properties talk about.                                         *)
(***************************************************************************)
\* the iterator exists: NumbersIterator::new has returned
Constructed == pc \in {"loop", "scan", "yielded", "done"}

\* the candidate list of a slot, as generate() hands it to the iterator
CandidatesOf(i) == CandidateKeys(At(candidate_phonemes, i))

\* the pairs of distinct consonants of a slot's candidate list
PairsOf(i) ==
    LET c == CandidatesOf(i)
    IN {<<c[a], c[b]>> : a, b \in 1..Len(c)} \ {<<c[a], c[a]>> : a \in 1..Len(c)}

PairScore(i, pr) ==
    NumberScore(candidate_phonemes, i,
                [first_consonant |-> pr[1], vowel |-> 0, second_consonant |-> pr[2]])

SetMax(S) == CHOOSE x \in S : \A y \in S : y <= x

RECURSIVE BestFrom(_, _, _)
\* the best total score of slots i..9 over the Assignments that avoid the
\* first consonants usedF and the second consonants usedS; -1 when none
BestFrom(i, usedF, usedS) ==
    IF i > LastSlot THEN 0
    ELSE LET rest == [pr \in {q \in PairsOf(i) : q[1] \notin usedF /\ q[2] \notin usedS} |->
                         BestFrom(i + 1, usedF \cup {pr[1]}, usedS \cup {pr[2]})]
             totals == {PairScore(i, pr) + rest[pr] : pr \in {q \in DOMAIN rest : rest[q] >= 0}}
         IN IF totals = {} THEN -1 ELSE SetMax(totals)

\* some collision-free Assignment can be built from the candidate lists
ExistsCollisionFree == BestFrom(0, {}, {}) >= 0

\* the largest total score among the retained Assignments
MaxRetained(w) == SetMax({w[k].score : k \in 1..Len(w)})

(***************************************************************************)
(* C1: every Assignment next() yields is collision-free: no two slots      *)
(* share a first consonant and no two slots share a second consonant.      *)
(***************************************************************************)
C1_YieldedCollisionFree == pc = "yielded" => CollisionFree(item)

(***************************************************************************)
(* C2: when the enumeration is exhausted, the last retained Assignment is  *)
(* collision-free and scores at least as much as every collision-free      *)
(* Assignment the candidate lists allow.                                   *)
(***************************************************************************)
C2_LastIsBest ==
    (pc = "done" /\ words # <<>>) =>
        LET last == words[Len(words)]
        IN /\ CollisionFree([i \in Slots |-> At(last.numbers, i).number])
           /\ last.score >= BestFrom(0, {}, {})

(***************************************************************************)
(* C3: when some slot has fewer than 2 candidate consonants the engine     *)
(* ends normally with nothing yielded; it does not abort.                  *)
(***************************************************************************)
C3_ScarcityEndsNormally ==
    (\E i \in Slots : Len(CandidatesOf(i)) < 2) => pc # "panic"

(***************************************************************************)
(* C4: the total scores of the retained Assignments are non-decreasing in  *)
(* the order they were appended.                                           *)
(***************************************************************************)
C4_ScoresNonDecreasing ==
    \A k \in 1..(Len(words) - 1) : words[k].score <= words[k + 1].score

\* two Assignments retained, the second strictly better, one discarded
C4_Witness ==
    /\ Len(words) >= 2
    /\ words[1].score < words[2].score
    /\ yields > Len(words)

(***************************************************************************)
(* C5: a yielded Assignment is appended exactly when its total score is    *)
(* at least the largest total score retained so far (the first one         *)
(* always); a discarded one leaves the result and the running maximum      *)
(* unchanged.                                                              *)
(***************************************************************************)
C5_RetainedIffNotLower ==
    [][pc = "yielded" =>
         LET c == Scored(candidate_phonemes, item)
         IN IF words = <<>> \/ c.score >= MaxRetained(words)
            THEN words' = Append(words, c)
            ELSE words' = words /\ max_score' = max_score]_vars

\* a tie was retained and a lower score was discarded
C5_Witness ==
    /\ pc = "loop"
    /\ Len(words) >= 2
    /\ words[Len(words)].score = words[Len(words) - 1].score
    /\ yields > Len(words)

(***************************************************************************)
(* C6: with a candidate list of 2 consonants in every slot and a           *)
(* collision-free Assignment to be found, the engine has yielded at least  *)
(* one collision-free Assignment when it reports exhaustion.               *)
(***************************************************************************)
C6_MinimalListsYieldValid ==
    (/\ pc = "done"
     /\ \A i \in Slots : Len(CandidatesOf(i)) = 2
     /\ ExistsCollisionFree) => valid_yields >= 1

(***************************************************************************)
(* C7: when the candidate lists allow no collision-free Assignment, next() *)
(* yields nothing: its first call returns None.                            *)
(***************************************************************************)
C7_InfeasibleYieldsNothing ==
    (Constructed /\ pc # "scan" /\ ~ExistsCollisionFree) => yields = 0

\* the first call has resolved collisions and returned None
C7_Witness ==
    /\ pc = "done"
    /\ calls = 1
    /\ duplicate
    /\ yields = 0
    /\ ~ExistsCollisionFree

(***************************************************************************)
(* C8: exhaustion is permanent: once the end flag is set it never becomes  *)
(* false again and no call of next() yields an Assignment any more, and    *)
(* the flag is set whenever next() has returned None, so every call after  *)
(* the first None returns None.                                            *)
(***************************************************************************)
C8_ExhaustionPermanent ==
    [][/\ end => (end' /\ pc' # "yielded" /\ yields' = yields)
       /\ nones > 0 => end]_vars

\* next() was called again after exhaustion, after cursors were reloaded
C8_Witness ==
    /\ pc = "done"
    /\ end
    /\ nones >= 2
    /\ yields >= 1

(***************************************************************************)
(* C9: in every Number the iterator holds or yields, the first consonant   *)
(* differs from the second.                                                *)
(***************************************************************************)
C9_FirstDiffersFromSecond ==
    Constructed =>
        /\ \A i \in Slots : numbers[i].first_consonant # numbers[i].second_consonant
        /\ pc = "yielded" =>
               \A i \in Slots : item[i].first_consonant # item[i].second_consonant

\* an Assignment yielded after a carry: some slot is past its first row
C9_Witness ==
    /\ pc = "yielded"
    /\ via = "avoid"
    /\ \E i \in Slots : number_itrators[i].first_consonant_index >= 1

(***************************************************************************)
(* C10: the vowel of slot i is vowels[i mod len(vowels)] in every Number   *)
(* the iterator holds or yields.                                           *)
(***************************************************************************)
C10_VowelFixed ==
    Constructed =>
        /\ \A i \in Slots : numbers[i].vowel = Vowels[(i % 5) + 1]
        /\ pc = "yielded" => \A i \in Slots : item[i].vowel = Vowels[(i % 5) + 1]

\* a second Assignment yielded, after slots were advanced and reloaded
C10_Witness ==
    /\ pc = "yielded"
    /\ yields >= 2
    /\ duplicate

(***************************************************************************)
(* C11: in every scored Assignment each slot's score is the weight of its  *)
(* first consonant plus the weight of its second consonant in that slot's  *)
(* weight map, a consonant without an entry counting 0, and the total is   *)
(* the sum of the ten slot scores.                                         *)
(***************************************************************************)
\* the weight of consonant c in the map of slot i, 0 without an entry
Lookup(i, c) ==
    LET weights == At(candidate_phonemes, i)
    IN IF c \in DOMAIN weights THEN weights[c] ELSE 0

Additive(c) ==
    /\ \A n \in 1..NumSlots :
           c.numbers[n].score = Lookup(n - 1, c.numbers[n].number.first_consonant)
                              + Lookup(n - 1, c.numbers[n].number.second_consonant)
    /\ c.score = c.numbers[1].score + c.numbers[2].score + c.numbers[3].score
               + c.numbers[4].score + c.numbers[5].score + c.numbers[6].score
               + c.numbers[7].score + c.numbers[8].score + c.numbers[9].score
               + c.numbers[10].score

C11_ScoreAdditive ==
    /\ \A k \in 1..Len(words) : Additive(words[k])
    /\ pc = "yielded" =>
          /\ Additive(Scored(candidate_phonemes, item))
          /\ \A i \in Slots :
                \A c \in Consonants \ DOMAIN At(candidate_phonemes, i) :
                   NumberScore(candidate_phonemes, i,
                               [item[i] EXCEPT !.second_consonant = c])
                     = Lookup(i, item[i].first_consonant)

\* a retained Assignment with a slot whose two consonants weigh differently
C11_Witness ==
    /\ Len(words) >= 1
    /\ \E n \in 1..NumSlots :
          LET nb == words[1].numbers[n].number
          IN /\ Lookup(n - 1, nb.first_consonant) # Lookup(n - 1, nb.second_consonant)
             /\ Lookup(n - 1, nb.second_consonant) > 0

(***************************************************************************)
(* C12: after weight preparation no weight map of candidate_phonemes has   *)
(* a vowel key.                                                            *)
(***************************************************************************)
VowelSet == {Vowels[k] : k \in 1..Len(Vowels)}

C12_NoVowelKey ==
    \A n \in 1..Len(candidate_phonemes) :
        DOMAIN candidate_phonemes[n] \cap VowelSet = {}

(***************************************************************************)
(* C12 as amended: the weight maps keep the vowels of the loanwords as     *)
(* keys; the candidate list generate() builds from each map has no vowel,  *)
(* and no vowel is the first or second consonant of a Number.              *)
(***************************************************************************)
C12_NoVowelCandidate ==
    Constructed =>
        \A i \in Slots :
            /\ \A k \in 1..Len(number_itrators[i].candidate_consonants) :
                   number_itrators[i].candidate_consonants[k] \notin VowelSet
            /\ numbers[i].first_consonant \notin VowelSet
            /\ numbers[i].second_consonant \notin VowelSet
            /\ pc = "yielded" => /\ item[i].first_consonant \notin VowelSet
                                 /\ item[i].second_consonant \notin VowelSet

\* an Assignment yielded from weight maps that all have a vowel key
C12_Witness ==
    /\ pc = "yielded"
    /\ \A n \in 1..Len(candidate_phonemes) :
          DOMAIN candidate_phonemes[n] \cap VowelSet # {}

(***************************************************************************)
(* C13: pruning is complete: when the engine reports exhaustion, every     *)
(* collision-free Assignment the candidate lists allow has been yielded.   *)
(***************************************************************************)
RECURSIVE CollisionFreeFrom(_, _)
\* the collision-free Assignments that extend a, whose slots below i are set
CollisionFreeFrom(i, a) ==
    IF i > LastSlot THEN {a}
    ELSE UNION {CollisionFreeFrom(i + 1,
                    [a EXCEPT ![i] = [first_consonant |-> pr[1],
                                      vowel |-> SlotVowel(i),
                                      second_consonant |-> pr[2]]]) :
                pr \in {q \in PairsOf(i) :
                           \A h \in 0..(i - 1) :
                               /\ a[h].first_consonant # q[1]
                               /\ a[h].second_consonant # q[2]}}

AllCollisionFree == CollisionFreeFrom(0, NoItem)

Yielded == {log[k] : k \in 1..Len(log)}

C13_PruningComplete ==
    pc = "done" => AllCollisionFree \subseteq Yielded

(***************************************************************************)
(* C14: on a first-consonant collision at slot i whose Number has first    *)
(* consonant c, the carry skips exactly the remaining pairs with first     *)
(* consonant c: when c is not the last candidate, the next pair slot i     *)
(* takes is the first pair of the next first index.                        *)
(***************************************************************************)
\* the 0-based position of consonant x in the candidate list c
IndexOf(c, x) == CHOOSE k \in 0..(Len(c) - 1) : At(c, k) = x

\* avoid_duplicate is at the first-consonant branch for slot index
AtFirstCollision ==
    /\ pc = "scan"
    /\ index < NumSlots
    /\ ~end
    /\ DuplicateFirstConsonant(numbers, index)

C14_CarrySkipsRowOnly ==
    [][AtFirstCollision =>
         LET c == CandidatesOf(index)
             f == IndexOf(c, numbers[index].first_consonant)
         IN f + 1 < Len(c) =>
                /\ index' = index
                /\ numbers'[index].first_consonant = At(c, f + 1)
                /\ numbers'[index].second_consonant = At(c, 0)]_vars

(***************************************************************************)
(* A single NumberIterator driven only by next().  The iterator under      *)
(* test is number_itrators[0]; log records the Numbers it yields and nones *)
(* counts the calls that returned None.                                    *)
(***************************************************************************)
\* candidate lists are the sorted lists over subsets of 1..MaxList
MaxList == 5

SlotInit ==
    /\ super_words = <<>>
    /\ \E S \in SUBSET (1..MaxList), v \in VowelSet :
          number_itrators =
              [i \in Slots |-> IF i = 0 THEN NumberIteratorNew(SortedSeq(S), v)
                               ELSE NumberIteratorNew(<<>>, 0)]
    /\ candidate_phonemes = <<>>
    /\ words = <<>>
    /\ max_score = 0
    /\ end = FALSE
    /\ numbers = NoItem
    /\ duplicate = FALSE
    /\ index = 0
    /\ pc = "slot"
    /\ item = NoItem
    /\ via = "none"
    /\ calls = 0
    /\ yields = 0
    /\ nones = 0
    /\ valid_yields = 0
    /\ log = <<>>

\* one call of NumberIterator::next
SlotNext ==
    /\ pc = "slot"
    /\ nones < MaxNone
    /\ LET r == NumberNext(number_itrators[0])
       IN /\ number_itrators' = [number_itrators EXCEPT ![0] = r.it]
          /\ IF r.some
             THEN /\ log' = Append(log, r.number)
                  /\ numbers' = [numbers EXCEPT ![0] = r.number]
                  /\ yields' = yields + 1
                  /\ nones' = nones
             ELSE /\ nones' = nones + 1
                  /\ UNCHANGED <<log, numbers, yields>>
    /\ calls' = calls + 1
    /\ UNCHANGED <<super_words, candidate_phonemes, words, max_score, end, duplicate, index,
                   pc, item, via, valid_yields>>

SpecSlot == SlotInit /\ [][SlotNext]_vars

(***************************************************************************)
(* C15: a NumberIterator over n distinct consonants yields exactly the     *)
(* n*(n-1) ordered pairs of distinct candidates, each once, in row-major   *)
(* order, and then None on every later call; for n < 2 the first call      *)
(* returns None.                                                           *)
(***************************************************************************)
\* the k-th (from 0) ordered pair of distinct candidates in row-major order
RowMajorPair(c, v, k) ==
    LET n == Len(c)
        a == k \div (n - 1)
        r == k % (n - 1)
        b == IF r < a THEN r ELSE r + 1
    IN [first_consonant |-> At(c, a), vowel |-> v, second_consonant |-> At(c, b)]

C15_RowMajorOnce ==
    pc = "slot" =>
        LET c == number_itrators[0].candidate_consonants
            n == Len(c)
        IN /\ Len(log) <= n * (n - 1)
           /\ \A k \in 1..Len(log) :
                  log[k] = RowMajorPair(c, number_itrators[0].vowel, k - 1)
           /\ nones > 0 => Len(log) = n * (n - 1)
           /\ (n < 2 /\ calls > 0) => nones = calls

\* a list of 3 or more consonants run to its end and called twice more
C15_Witness ==
    /\ pc = "slot"
    /\ nones >= 2
    /\ Len(log) >= 6

(***************************************************************************)
(* The engine on candidate lists that are pairwise disjoint: the loanword  *)
(* of digit d brings two consonants no other digit has.  No collision can  *)
(* arise, so the two collision branches of avoid_duplicate never run.      *)
(***************************************************************************)
\* the disjoint lists start at consonant 1 + r for r in 0..MaxShift
MaxShift == 1

DisjointCons(r, k) == 1 + ((k + r) % NumCons)

DisjointWords(r) ==
    [n \in 1..NumSlots |->
        LET d == n - 1
            vowel == Vowels[(d % Len(Vowels)) + 1]
        IN [meaning |-> d,
            origins |-> <<[language |-> "a",
                           loan |-> <<DisjointCons(r, 2 * d), vowel,
                                      DisjointCons(r, 2 * d + 1)>>]>>]]

DisjointInit ==
    /\ \E r \in 0..MaxShift :
          /\ super_words = DisjointWords(r)
          /\ candidate_phonemes =
                 InitializeCandidatePhonemes(DisjointWords(r),
                                             [l \in Languages |-> 1]).vec
    /\ words = <<>>
    /\ max_score = 0
    /\ end = FALSE
    /\ number_itrators = [i \in Slots |-> NumberIteratorNew(<<>>, 0)]
    /\ numbers = NoItem
    /\ duplicate = FALSE
    /\ index = 0
    /\ pc = "constructed"
    /\ item = NoItem
    /\ via = "none"
    /\ calls = 0
    /\ yields = 0
    /\ nones = 0
    /\ valid_yields = 0
    /\ log = <<>>

DisjointNext ==
    \/ GenerateBegin
    \/ NextBegin
    \/ ScanEnd
    \/ ScanAdvance
    \/ ScanExit
    \/ Consume

SpecDisjoint == DisjointInit /\ [][DisjointNext]_vars

(***************************************************************************)
(* C16: with pairwise disjoint candidate lists the engine is a mixed-radix *)
(* counter: it yields the cross-product of the slots' pair sequences, each *)
(* element once, in lexicographic order with the last slot fastest,        *)
(* starting with the primed Assignment, so the number of yields is the     *)
(* product of the per-slot pair counts.                                    *)
(***************************************************************************)
\* the position of a slot's Number in the row-major order of its pairs
RankOf(i, number) ==
    LET c == CandidatesOf(i)
        a == IndexOf(c, number.first_consonant)
        b == IndexOf(c, number.second_consonant)
    IN a * (Len(c) - 1) + (IF b < a THEN b ELSE b - 1)

\* Assignment x comes before Assignment y, slot 0 most significant
LexLess(x, y) ==
    \E i \in Slots :
        /\ \A h \in 0..(i - 1) : x[h] = y[h]
        /\ RankOf(i, x[i]) < RankOf(i, y[i])

\* every slot at its first pair
PrimedAssignment ==
    [i \in Slots |-> RowMajorPair(CandidatesOf(i), SlotVowel(i), 0)]

RECURSIVE PairCountProduct(_)
\* the product of the pair counts of slots i..9
PairCountProduct(i) ==
    IF i > LastSlot THEN 1
    ELSE Cardinality(PairsOf(i)) * PairCountProduct(i + 1)

C16_MixedRadixCounter ==
    Constructed =>
        /\ Len(log) >= 1 => log[1] = PrimedAssignment
        /\ Len(log) >= 2 => LexLess(log[Len(log) - 1], log[Len(log)])
        /\ pc = "done" => yields = PairCountProduct(0)

(***************************************************************************)
(* C17: a call raw_next(k) that returns an Assignment changes the Number   *)
(* of exactly one slot m <= k to that slot's next pair, resets the slots   *)
(* m+1..k to their first pair, and leaves the Numbers and cursors of the   *)
(* slots below m and above k unchanged; raw_next_and_get_index(k) makes    *)
(* the same change and returns m.                                          *)
(***************************************************************************)
\* the slot's iterator as it is right after its first pair was taken
JustPrimed(it) == NumberNext(NumberIteratorNew(it.candidate_consonants, it.vowel))

\* t is s after slot m took its next pair and the slots m+1..k were reset
AdvanceFrame(s, t, m, k) ==
    /\ t.end = s.end
    /\ LET r == NumberNext(s.number_itrators[m])
       IN /\ r.some
          /\ t.numbers[m] = r.number
          /\ t.number_itrators[m] = r.it
    /\ \A i \in (m + 1)..k :
          /\ ~NumberNext(s.number_itrators[i]).some
          /\ t.numbers[i] = RowMajorPair(s.number_itrators[i].candidate_consonants,
                                         s.number_itrators[i].vowel, 0)
          /\ t.number_itrators[i] = JustPrimed(s.number_itrators[i]).it
    /\ \A i \in Slots \ (m..k) :
          /\ t.numbers[i] = s.numbers[i]
          /\ t.number_itrators[i] = s.number_itrators[i]

C17_AdvanceFrame ==
    (Constructed /\ ~end) =>
        \A k \in Slots :
            LET r == RawNext(iter, k)
                g == RawNextAndGetIndex(iter, k)
            IN r.some =>
                  /\ \E m \in 0..k : AdvanceFrame(iter, r.s, m, k)
                  /\ NumberNext(number_itrators[k]).some =>
                         AdvanceFrame(iter, r.s, k, k)
                  /\ g.s = r.s
                  /\ AdvanceFrame(iter, g.s, g.index, k)

\* next() has just returned what raw_next(9) produced by resetting slot 9
\* and carrying to slot 8
C17_Witness ==
    /\ pc = "yielded"
    /\ via = "raw"
    /\ yields >= 2
    /\ numbers[9] = RowMajorPair(CandidatesOf(9), SlotVowel(9), 0)
    /\ log[yields - 1][8] # numbers[8]

(***************************************************************************)
(* C18: after a conflict-resolution step of avoid_duplicate for a          *)
(* collision found at slot i, every slot above i holds its first pair with *)
(* its cursor just after that pair, and the Numbers of the slots below the *)
(* slot that advanced are unchanged.                                       *)
(***************************************************************************)
\* avoid_duplicate is at the second-consonant branch for slot index
AtSecondCollision ==
    /\ pc = "scan"
    /\ index < NumSlots
    /\ ~end
    /\ ~DuplicateFirstConsonant(numbers, index)
    /\ DuplicateSecondConsonant(numbers, index)

C18_HigherSlotsReset ==
    [][(AtFirstCollision \/ AtSecondCollision) =>
         /\ \A i \in (index + 1)..LastSlot :
                /\ numbers'[i] = RowMajorPair(CandidatesOf(i), SlotVowel(i), 0)
                /\ number_itrators'[i] = JustPrimed(number_itrators[i]).it
         /\ \A h \in 0..(index' - 1) : numbers'[h] = numbers[h]]_vars

\* a resolution step of a later call has carried down to slot 7 or lower:
\* the slot the scan resumes at has a new Number, the slots above it hold
\* their first pair
C18_Witness ==
    /\ pc = "scan"
    /\ duplicate
    /\ yields >= 1
    /\ index <= 7
    /\ numbers[index] # log[yields][index]
    /\ \A i \in (index + 1)..LastSlot :
           numbers[i] = RowMajorPair(CandidatesOf(i), SlotVowel(i), 0)

(***************************************************************************)
(* C19: on a second-consonant collision at slot i without a                *)
(* first-consonant collision, slot i moves to its immediate successor pair *)
(* in row-major order; only when it has no successor is it reloaded and    *)
(* the carry passed to slot i-1.  When slot i collides on both consonants  *)
(* the first-consonant rule is applied: slot i leaves its row.             *)
(***************************************************************************)
\* the number of pairs of slot i
PairCount(i) == Len(CandidatesOf(i)) * (Len(CandidatesOf(i)) - 1)

C19_SecondMovesToSuccessor ==
    [][/\ AtSecondCollision =>
            LET rank == RankOf(index, numbers[index])
            IN IF rank + 1 < PairCount(index)
               THEN /\ index' = index
                    /\ numbers'[index] =
                           RowMajorPair(CandidatesOf(index), SlotVowel(index), rank + 1)
               ELSE /\ numbers'[index] =
                           RowMajorPair(CandidatesOf(index), SlotVowel(index), 0)
                    /\ index' < index
                    /\ \/ end'
                       \/ RankOf(index', numbers'[index']) > RankOf(index', numbers[index'])
       /\ (AtFirstCollision /\ DuplicateSecondConsonant(numbers, index)) =>
            (index' = index =>
                numbers'[index].first_consonant # numbers[index].first_consonant)]_vars

\* the call after a yield has found its first collision at slot index, on
\* the second consonant only, and slot index now holds the successor of the
\* pair it held
C19_Witness ==
    /\ pc = "scan"
    /\ duplicate
    /\ yields >= 1
    /\ calls = yields + 1
    /\ index >= 1
    /\ index < NumSlots
    /\ LET prev == log[yields]
       IN /\ \A h \in 0..(index - 1) : numbers[h] = prev[h]
          /\ \A h \in 1..(index - 1) : /\ ~DuplicateFirstConsonant(prev, h)
                                       /\ ~DuplicateSecondConsonant(prev, h)
          /\ ~DuplicateFirstConsonant(prev, index)
          /\ DuplicateSecondConsonant(prev, index)
          /\ RankOf(index, numbers[index]) = RankOf(index, prev[index]) + 1

(***************************************************************************)
(* The same program under the assumption that it keeps running: a step     *)
(* that can be taken is eventually taken (generate() is a sequential loop  *)
(* that is never suspended).                                               *)
(***************************************************************************)
\* populations do not bear on termination: both languages have population 1
LiveInit ==
    /\ \E m \in 1..MaxMod, j \in Slots, e \in 0..MaxExtra :
          /\ super_words = RecipeWords(m, j, e)
          /\ candidate_phonemes =
                 InitializeCandidatePhonemes(RecipeWords(m, j, e),
                                             [l \in Languages |-> 1]).vec
    /\ words = <<>>
    /\ max_score = 0
    /\ end = FALSE
    /\ number_itrators = [i \in Slots |-> NumberIteratorNew(<<>>, 0)]
    /\ numbers = NoItem
    /\ duplicate = FALSE
    /\ index = 0
    /\ pc = "constructed"
    /\ item = NoItem
    /\ via = "none"
    /\ calls = 0
    /\ yields = 0
    /\ nones = 0
    /\ valid_yields = 0
    /\ log = <<>>

SpecLive == LiveInit /\ [][Next]_vars /\ WF_vars(Next)

(***************************************************************************)
(* C20: with at least 2 consonants in every candidate list, every call of  *)
(* next() returns, and after finitely many calls next() returns None, so   *)
(* generate() finishes.                                                    *)
(***************************************************************************)
C20_Terminates ==
    (\A i \in Slots : Len(CandidatesOf(i)) >= 2) =>
        /\ (pc = "scan") ~> (pc \in {"yielded", "done"})
        /\ <>(pc = "done")

\* generate() has finished after several yields, the last call having
\* resolved collisions down to slot 0
C20_Witness ==
    /\ pc = "done"
    /\ nones = 1
    /\ yields >= 2
    /\ duplicate
    /\ \A i \in Slots : Len(CandidatesOf(i)) >= 2

(***************************************************************************)
(* C21: whenever avoid_duplicate returns true, the Assignment it leaves in *)
(* numbers is collision-free over all pairs of slots: resuming the scan at *)
(* the slot that advanced leaves no collision undetected.                  *)
(***************************************************************************)
\* the slots below k are free of collisions among themselves
CollisionFreeBelow(a, k) ==
    \A i, j \in 0..(k - 1) :
        i # j => /\ a[i].first_consonant # a[j].first_consonant
                 /\ a[i].second_consonant # a[j].second_consonant

C21_AvoidedIsCollisionFree ==
    /\ (pc = "yielded" /\ via = "avoid") => CollisionFree(item) /\ item = numbers
    /\ (pc = "scan" /\ ~end) => CollisionFreeBelow(numbers, index)

\* avoid_duplicate has returned true after a carry took the scan back to a
\* lower slot: the previous yield had its only collisions at slot 9, and a
\* slot below 9 has a Number it did not have then
C21_Witness ==
    /\ pc = "yielded"
    /\ via = "avoid"
    /\ yields >= 2
    /\ CollisionFreeBelow(log[yields - 1], LastSlot)
    /\ \E i \in 0..(LastSlot - 1) : item[i] # log[yields - 1][i]

(***************************************************************************)
(* C22: the Assignments yielded by successive calls of next() are strictly *)
(* increasing in the lexicographic order of the slots' pair positions      *)
(* (slot 0 most significant, row-major within a slot), so no Assignment is *)
(* yielded twice.                                                          *)
(***************************************************************************)
C22_YieldsIncrease ==
    Constructed =>
        /\ Len(log) >= 2 => LexLess(log[Len(log) - 1], log[Len(log)])
        /\ \A j, k \in 1..Len(log) : j # k => log[j] # log[k]

\* three yields, the last after conflict resolution reset a slot to an
\* earlier pair than it held at the yield before
C22_Witness ==
    /\ pc = "yielded"
    /\ yields >= 3
    /\ via = "avoid"
    /\ \E i \in Slots : RankOf(i, log[yields][i]) < RankOf(i, log[yields - 1][i])

(***************************************************************************)
(* Weight preparation on its own: NumberGenerator::new has stored the      *)
(* words and calls initialize_candidate_phonemes.  The words are those of  *)
(* a chain recipe with the words at two positions a and b of the input     *)
(* exchanged (a = b leaves them in the order of their digit labels); both  *)
(* languages have population 1.                                            *)
(***************************************************************************)
\* the input position that holds the word of position k after the exchange
Exchange(k, a, b) == IF k = a THEN b ELSE IF k = b THEN a ELSE k

PermutedWords(m, a, b) ==
    [n \in 1..NumSlots |-> RecipeWords(m, 0, 0)[Exchange(n - 1, a, b) + 1]]

PrepareInit ==
    /\ \E m \in 1..MaxMod, a \in Slots, b \in Slots :
          /\ a <= b
          /\ super_words = PermutedWords(m, a, b)
    /\ candidate_phonemes = <<>>
    /\ words = <<>>
    /\ max_score = 0
    /\ end = FALSE
    /\ number_itrators = [i \in Slots |-> NumberIteratorNew(<<>>, 0)]
    /\ numbers = NoItem
    /\ duplicate = FALSE
    /\ index = 0
    /\ pc = "new"
    /\ item = NoItem
    /\ via = "none"
    /\ calls = 0
    /\ yields = 0
    /\ nones = 0
    /\ valid_yields = 0
    /\ log = <<>>

\* initialize_candidate_phonemes; a failed Vec::insert aborts the program
Initialize ==
    /\ pc = "new"
    /\ \E r \in {InitializeCandidatePhonemes(super_words, [l \in Languages |-> 1])} :
          /\ candidate_phonemes' = r.vec
          /\ pc' = IF r.ok THEN "constructed" ELSE "panic"
    /\ UNCHANGED <<super_words, words, max_score, end, number_itrators, numbers,
                   duplicate, index, item, via, calls, yields, nones,
                   valid_yields, log>>

SpecPrepare == PrepareInit /\ [][Initialize]_vars

(***************************************************************************)
(* C23: for input words whose digit labels are a permutation of 0..9, in   *)
(* any input order, weight preparation completes and the weight map at     *)
(* candidate_phonemes[d] is the one built from the word labelled d.        *)
(***************************************************************************)
\* the input word whose digit label is d
WordLabelled(d) ==
    super_words[CHOOSE n \in 1..Len(super_words) : super_words[n].meaning = d]

C23_IndexedByDigit ==
    pc # "new" =>
        /\ pc # "panic"
        /\ Len(candidate_phonemes) = NumSlots
        /\ \A d \in Slots :
               At(candidate_phonemes, d) =
                   AddOrigins(WordLabelled(d).origins, [l \in Languages |-> 1], <<>>)

====
